---- MODULE Spec2Model ----
(***************************************************************************)
(* Car Scanner: the Interaction Controller (src/App.tsx, component App)    *)
(* and the Request Adapter (src/services/geminiService.ts,                 *)
(* analyzeCarImage), modelled as one event-driven state machine.           *)
(*                                                                         *)
(* JavaScript values are tagged records: Null, Undefined, a string, a      *)
(* File, an object URL, a parsed JSON object, a thrown Error or event.     *)
(* A response body is a sequence of tokens, so that trim() and             *)
(* JSON.parse() are computed and not assumed.                              *)
(***************************************************************************)
EXTENDS Integers, Sequences, FiniteSets, TLC

\* ---------------------------------------------------------------- bounds
MaxFiles == 2      \* file selections explored
MaxScans == 3      \* handleScan invocations explored

\* ------------------------------------------------------- JavaScript values
Null      == [type |-> "null"]
Undefined == [type |-> "undefined"]
Str(s)    == [type |-> "string", s |-> s]
FileObj(n) == [type |-> "file", id |-> n]
UrlObj(n)  == [type |-> "url", id |-> n]
Obj(m)    == [type |-> "object", members |-> m]
ErrorObj(msg) == [type |-> "error", message |-> Str(msg)]
ProgressEvent == [type |-> "event", message |-> Undefined]

Truthy(v) == /\ v # Null
             /\ v # Undefined
             /\ v # Str("")

\* a || b
OrElse(a, b) == IF Truthy(a) THEN a ELSE b

\* ------------------------------------------------------ program constants
ApiKeyMsg     == "API_KEY is not configured."
ReadFailMsg   == "Failed to read file as data URL."
AnalyzeFailMsg == "Failed to analyze image. The AI model could not process the request."
UnknownErrMsg == "An unknown error occurred."

required == {"make", "model", "color", "year"}

\* ------------------------------------------------------- response bodies
Tok(t)       == [t |-> t, k |-> "", v |-> ""]
Member(k, v) == [t |-> "member", k |-> k, v |-> v]
WS     == Tok("ws")
LBrace == Tok("lbrace")
RBrace == Tok("rbrace")
NullTok == Tok("null")
Junk   == Tok("junk")

RECURSIVE TrimLeft(_)
TrimLeft(s) == IF s # <<>> /\ Head(s) = WS THEN TrimLeft(Tail(s)) ELSE s

RECURSIVE TrimRight(_)
TrimRight(s) == IF s # <<>> /\ s[Len(s)] = WS
                THEN TrimRight(SubSeq(s, 1, Len(s) - 1))
                ELSE s

\* String.prototype.trim
Trim(s) == TrimRight(TrimLeft(s))

SyntaxError == [type |-> "error", message |-> Str("SyntaxError")]

\* the members of an object literal: a later duplicate key wins
RECURSIVE MembersOf(_)
MembersOf(s) ==
    IF s = <<>> THEN <<>>
    ELSE LET rest == MembersOf(SubSeq(s, 1, Len(s) - 1))
             last == s[Len(s)]
         IN [key \in (DOMAIN rest) \cup {last.k} |->
                IF key = last.k THEN last.v ELSE rest[key]]

\* JSON.parse on a token sequence: a value, or SyntaxError for a throw
JsonParse(s) ==
    LET body == TrimLeft(TrimRight(s))
    IN IF body = <<NullTok>> THEN Null
       ELSE IF /\ Len(body) >= 2
               /\ body[1] = LBrace
               /\ body[Len(body)] = RBrace
               /\ \A i \in 2..(Len(body) - 1) : body[i].t = "member"
            THEN Obj(MembersOf(SubSeq(body, 2, Len(body) - 1)))
            ELSE SyntaxError

\* what the remote service can answer
CamryText   == <<WS, LBrace, Member("make", "Toyota"), Member("model", "Camry"),
                 Member("color", "Blue"), Member("year", "2021"), RBrace, WS>>
UnknownText == <<LBrace, Member("make", "Unknown"), Member("model", "Unknown"),
                 Member("color", "Unknown"), Member("year", "Unknown"), RBrace>>
PartialText == <<LBrace, Member("make", "Toyota"), RBrace>>
NullText    == <<NullTok, WS>>
JunkText    == <<Junk, LBrace>>

\* ok: the request came back; hasText: response.text is a string
Reply(text)    == [ok |-> TRUE, hasText |-> TRUE, text |-> text]
TransportFail  == [ok |-> FALSE, hasText |-> FALSE, text |-> <<>>]
NoTextReply    == [ok |-> TRUE, hasText |-> FALSE, text |-> <<>>]

Responses == { Reply(CamryText), Reply(UnknownText), Reply(PartialText),
               Reply(NullText), Reply(JunkText), NoTextReply, TransportFail }

\* ------------------------------------------------- outcomes of a promise
Return(v) == [kind |-> "return", value |-> v]
Throw(e)  == [kind |-> "throw", value |-> e]
NoOutcome == [kind |-> "none", value |-> Undefined]

\* ------------------------------------------------------------------ state
VARIABLES
    apiKey,          \* process.env.API_KEY is set
    imageFile,       \* useState<File | null>
    previewUrl,      \* useState<string | null>
    analysisResult,  \* useState<CarAnalysis | null>
    isLoading,       \* useState<boolean>
    error,           \* useState<string | null>
    calls,           \* analyzeCarImage promises not yet settled
    urls,            \* object URLs created and not revoked
    nextFile,        \* File objects handed out by the file input so far
    scans,           \* handleScan runs that passed the imageFile guard
    invocations,     \* analyzeCarImage invocations
    requests,        \* ai.models.generateContent calls issued
    resultFrom,      \* the File whose scan wrote analysisResult
    errorFrom,       \* the File whose scan wrote error
    event            \* the handler that ran last

vars == <<apiKey, imageFile, previewUrl, analysisResult, isLoading, error,
          calls, urls, nextFile, scans, invocations, requests,
          resultFrom, errorFrom, event>>

Held == Truthy(analysisResult) \/ Truthy(error)

Event(op, file, outcome) ==
    [op |-> op, file |-> file, outcome |-> outcome, pre |-> Held,
     wasLoading |-> isLoading]

Init ==
    /\ apiKey \in BOOLEAN
    /\ imageFile = Null
    /\ previewUrl = Null
    /\ analysisResult = Null
    /\ isLoading = FALSE
    /\ error = Null
    /\ calls = {}
    /\ urls = {}
    /\ nextFile = 0
    /\ scans = 0
    /\ invocations = 0
    /\ requests = 0
    /\ resultFrom = Null
    /\ errorFrom = Null
    /\ event = [op |-> "init", file |-> Null, outcome |-> NoOutcome,
                pre |-> FALSE, wasLoading |-> FALSE]

\* a rejected promise whose continuation is queued as a microtask: it runs
\* before the browser dispatches any further event
MicrotaskPending == \E c \in calls : c.phase = "rejected"

\* ---------------------------------------------------------------- App
\* handleFileSelect without setAnalysisResult(null) and setError(null)
handleFileSelect_KeepsResult ==
    /\ ~MicrotaskPending
    /\ ~Truthy(imageFile)
    /\ nextFile < MaxFiles
    /\ LET file == FileObj(nextFile + 1)
           url  == UrlObj(nextFile + 1)
       IN /\ imageFile' = file
          /\ previewUrl' = url
          /\ urls' = urls \cup {url}
          /\ event' = Event("select", file, NoOutcome)
    /\ nextFile' = nextFile + 1
    /\ UNCHANGED <<apiKey, analysisResult, error, resultFrom, errorFrom,
                   isLoading, calls, scans, invocations, requests>>

\* the file input of FileUploader, rendered only while !imageFile
handleFileSelect ==
    /\ ~MicrotaskPending
    /\ ~Truthy(imageFile)
    /\ nextFile < MaxFiles
    /\ LET file == FileObj(nextFile + 1)
           url  == UrlObj(nextFile + 1)
       IN /\ imageFile' = file
          /\ previewUrl' = url
          /\ urls' = urls \cup {url}
          /\ event' = Event("select", file, NoOutcome)
    /\ nextFile' = nextFile + 1
    /\ analysisResult' = Null
    /\ error' = Null
    /\ resultFrom' = Null
    /\ errorFrom' = Null
    /\ UNCHANGED <<apiKey, isLoading, calls, scans, invocations, requests>>

\* analyzeCarImage with the credential check left out
analyzeCarImage_enter_NoCheck == "reading"

\* analyzeCarImage up to its first await: the credential check
analyzeCarImage_enter == IF ~apiKey THEN "rejected" ELSE "reading"

\* handleScan with a button that is not disabled while isLoading
handleScan_NotDisabled ==
    /\ ~MicrotaskPending
    /\ Truthy(imageFile)
    /\ ~Truthy(analysisResult)
    /\ scans < MaxScans
    /\ isLoading' = TRUE
    /\ error' = Null
    /\ analysisResult' = Null
    /\ resultFrom' = Null
    /\ errorFrom' = Null
    /\ scans' = scans + 1
    /\ invocations' = invocations + 1
    /\ calls' = calls \cup {[id |-> invocations + 1, file |-> imageFile,
                              phase |-> analyzeCarImage_enter]}
    /\ event' = Event("scan", imageFile, NoOutcome)
    /\ UNCHANGED <<apiKey, imageFile, previewUrl, urls, nextFile, requests>>

\* handleScan without setError(null)
handleScan_KeepsError ==
    /\ ~MicrotaskPending
    /\ Truthy(imageFile)
    /\ ~Truthy(analysisResult)
    /\ ~isLoading
    /\ scans < MaxScans
    /\ isLoading' = TRUE
    /\ analysisResult' = Null
    /\ resultFrom' = Null
    /\ scans' = scans + 1
    /\ invocations' = invocations + 1
    /\ calls' = calls \cup {[id |-> invocations + 1, file |-> imageFile,
                              phase |-> analyzeCarImage_enter]}
    /\ event' = Event("scan", imageFile, NoOutcome)
    /\ UNCHANGED <<apiKey, error, errorFrom, imageFile, previewUrl, urls, nextFile, requests>>

\* the "Scan Image" button: rendered while imageFile && !analysisResult,
\* disabled while isLoading
handleScan ==
    /\ ~MicrotaskPending
    /\ Truthy(imageFile)
    /\ ~Truthy(analysisResult)
    /\ ~isLoading
    /\ scans < MaxScans
    /\ isLoading' = TRUE
    /\ error' = Null
    /\ analysisResult' = Null
    /\ resultFrom' = Null
    /\ errorFrom' = Null
    /\ scans' = scans + 1
    /\ invocations' = invocations + 1
    /\ calls' = calls \cup {[id |-> invocations + 1, file |-> imageFile,
                              phase |-> analyzeCarImage_enter]}
    /\ event' = Event("scan", imageFile, NoOutcome)
    /\ UNCHANGED <<apiKey, imageFile, previewUrl, urls, nextFile, requests>>

\* resetState without setIsLoading(false)
resetState_KeepsLoading ==
    /\ ~MicrotaskPending
    /\ Truthy(imageFile)
    /\ urls' = IF Truthy(previewUrl) THEN urls \ {previewUrl} ELSE urls
    /\ imageFile' = Null
    /\ previewUrl' = Null
    /\ analysisResult' = Null
    /\ error' = Null
    /\ resultFrom' = Null
    /\ errorFrom' = Null
    /\ event' = Event("reset", imageFile, NoOutcome)
    /\ UNCHANGED <<apiKey, isLoading, calls, nextFile, scans, invocations,
                   requests>>

\* resetState without URL.revokeObjectURL
resetState_NoRevoke ==
    /\ ~MicrotaskPending
    /\ Truthy(imageFile)
    /\ imageFile' = Null
    /\ previewUrl' = Null
    /\ analysisResult' = Null
    /\ error' = Null
    /\ isLoading' = FALSE
    /\ resultFrom' = Null
    /\ errorFrom' = Null
    /\ event' = Event("reset", imageFile, NoOutcome)
    /\ UNCHANGED <<apiKey, urls, calls, nextFile, scans, invocations, requests>>

\* the "Remove image" and "Scan Another Car" buttons, rendered while imageFile
resetState ==
    /\ ~MicrotaskPending
    /\ Truthy(imageFile)
    /\ urls' = IF Truthy(previewUrl) THEN urls \ {previewUrl} ELSE urls
    /\ imageFile' = Null
    /\ previewUrl' = Null
    /\ analysisResult' = Null
    /\ error' = Null
    /\ isLoading' = FALSE
    /\ resultFrom' = Null
    /\ errorFrom' = Null
    /\ event' = Event("reset", imageFile, NoOutcome)
    /\ UNCHANGED <<apiKey, calls, nextFile, scans, invocations, requests>>

\* handleScan calling analyzeCarImage again from its catch block
Settle_Retry(c, outcome) ==
    /\ IF outcome.kind = "return"
       THEN /\ analysisResult' = outcome.value
            /\ resultFrom' = IF Truthy(outcome.value) THEN c.file ELSE Null
            /\ calls' = calls \ {c}
            /\ UNCHANGED <<error, errorFrom, invocations>>
       ELSE /\ error' = OrElse(outcome.value.message, Str(UnknownErrMsg))
            /\ errorFrom' = c.file
            /\ invocations' = invocations + 1
            /\ calls' = IF invocations < MaxScans + 1
                        THEN (calls \ {c}) \cup
                             {[id |-> invocations + 1, file |-> c.file,
                               phase |-> IF ~apiKey THEN "rejected"
                                                    ELSE "reading"]}
                        ELSE calls \ {c}
            /\ UNCHANGED <<analysisResult, resultFrom>>
    /\ isLoading' = FALSE
    /\ event' = Event("complete", c.file, outcome)
    /\ UNCHANGED <<apiKey, imageFile, previewUrl, urls, nextFile, scans>>

\* handleScan with setIsLoading(false) at the end of the try block only
Settle_NoFinally(c, outcome) ==
    /\ calls' = calls \ {c}
    /\ IF outcome.kind = "return"
       THEN /\ analysisResult' = outcome.value
            /\ resultFrom' = IF Truthy(outcome.value) THEN c.file ELSE Null
            /\ isLoading' = FALSE
            /\ UNCHANGED <<error, errorFrom>>
       ELSE /\ error' = OrElse(outcome.value.message, Str(UnknownErrMsg))
            /\ errorFrom' = c.file
            /\ UNCHANGED <<analysisResult, resultFrom, isLoading>>
    /\ event' = Event("complete", c.file, outcome)
    /\ UNCHANGED <<apiKey, imageFile, previewUrl, urls, nextFile, scans,
                   invocations>>

\* the rest of handleScan, resumed when the awaited promise settles:
\* try { setAnalysisResult } catch { setError } finally { setIsLoading(false) }
Settle(c, outcome) ==
    /\ calls' = calls \ {c}
    /\ IF outcome.kind = "return"
       THEN /\ analysisResult' = outcome.value
            /\ resultFrom' = IF Truthy(outcome.value) THEN c.file ELSE Null
            /\ UNCHANGED <<error, errorFrom>>
       ELSE /\ error' = OrElse(outcome.value.message, Str(UnknownErrMsg))
            /\ errorFrom' = c.file
            /\ UNCHANGED <<analysisResult, resultFrom>>
    /\ isLoading' = FALSE
    /\ event' = Event("complete", c.file, outcome)
    /\ UNCHANGED <<apiKey, imageFile, previewUrl, urls, nextFile, scans,
                   invocations>>

\* ------------------------------------------------------- geminiService
\* throw new Error("API_KEY is not configured.")
ConfigRejected(c) ==
    /\ c.phase = "rejected"
    /\ Settle(c, Throw(ErrorObj(ApiKeyMsg)))
    /\ UNCHANGED requests

\* how the FileReader of fileToGenerativePart can fail
ReadErrors == {ErrorObj(ReadFailMsg), ProgressEvent}

\* reader.onloadend with a string result, then ai.models.generateContent
ReadDone(c) ==
    /\ ~MicrotaskPending
    /\ c.phase = "reading"
    /\ calls' = (calls \ {c}) \cup {[c EXCEPT !.phase = "requesting"]}
    /\ requests' = requests + 1
    /\ event' = Event("read", c.file, NoOutcome)
    /\ UNCHANGED <<apiKey, imageFile, previewUrl, analysisResult, isLoading,
                   error, urls, nextFile, scans, invocations, resultFrom,
                   errorFrom>>

\* the reader rejects: nothing in analyzeCarImage catches it
ReadFailed(c, e) ==
    /\ ~MicrotaskPending
    /\ c.phase = "reading"
    /\ Settle(c, Throw(e))
    /\ UNCHANGED requests

\* the try/catch around generateContent, trim and JSON.parse
analyzeCarImage_response(resp) ==
    IF ~resp.ok \/ ~resp.hasText
    THEN Throw(ErrorObj(AnalyzeFailMsg))
    ELSE LET result == JsonParse(Trim(resp.text))
         IN IF result = SyntaxError
            THEN Throw(ErrorObj(AnalyzeFailMsg))
            ELSE Return(result)

Respond(c, resp) ==
    /\ ~MicrotaskPending
    /\ c.phase = "requesting"
    /\ Settle(c, analyzeCarImage_response(resp))
    /\ UNCHANGED requests

AdapterStep ==
    \E c \in calls :
        \/ ConfigRejected(c)
        \/ ReadDone(c)
        \/ \E e \in ReadErrors : ReadFailed(c, e)
        \/ \E resp \in Responses : Respond(c, resp)

Next ==
    \/ handleFileSelect
    \/ handleScan
    \/ resetState
    \/ AdapterStep

Spec == Init /\ [][Next]_vars

\* every analyzeCarImage promise settles eventually
LiveSpec == Spec /\ WF_vars(AdapterStep)

\* ----------------------------------------------------------- properties
\* a value of type CarAnalysis: an object with the four string fields
IsCarAnalysis(v) == /\ v.type = "object"
                    /\ required \subseteq DOMAIN v.members

Idle == /\ imageFile = Null
        /\ previewUrl = Null
        /\ analysisResult = Null
        /\ error = Null
        /\ isLoading = FALSE

\* C1: at most one analyzeCarImage call is in flight in every reachable
\* state, also after a reset followed by a new file selection.
C1_AtMostOneInFlight == Cardinality(calls) <= 1

\* C2: a result or an error that is held was produced by a scan of the
\* image that is held now; a completion of a scan that was reset away
\* writes nothing.
C2_StaleCompletionIgnored ==
    /\ Truthy(analysisResult) => resultFrom = imageFile
    /\ Truthy(error) => errorFrom = imageFile

\* C3: loading, a result or an error is held only together with an image
\* and its preview; without an image none of the three is held.
C3_AssetRetained ==
    (isLoading \/ Truthy(analysisResult) \/ Truthy(error))
        => (Truthy(imageFile) /\ Truthy(previewUrl))

\* C4: whatever the remote service answers, a value that analyzeCarImage
\* returns (does not throw) has all of make, model, color and year.
C4_ReturnsFullRecord ==
    (event.op = "complete" /\ event.outcome.kind = "return")
        => IsCarAnalysis(event.outcome.value)

\* C5: right after resetState, from whatever state and with calls still in
\* flight, no image, preview, result or error is held and isLoading is
\* false.
C5_ResetYieldsIdle == event.op = "reset" => Idle

\* C5 witness: a reset while the scan was loading, its call still in flight
C5_Witness == /\ event.op = "reset"
              /\ event.wasLoading
              /\ \E c \in calls : c.file = event.file

\* C6: right after a file selection the held image is the selected file,
\* its preview URL exists, and no result and no error is held.
C6_SelectYieldsReady ==
    event.op = "select" =>
        /\ imageFile = event.file
        /\ imageFile = FileObj(nextFile)
        /\ previewUrl \in urls
        /\ ~Truthy(analysisResult)
        /\ ~Truthy(error)
        /\ ~isLoading

\* C6 witness: a selection made while a result or error was still held
C6_Witness == /\ event.op = "select"
              /\ event.pre

\* C7: without a credential every scan ends with the configuration error
\* in the error field, the image still held, and no request ever issued.
C7_NoCredentialFails ==
    ~apiKey =>
        /\ requests = 0
        /\ event.op = "complete" =>
              /\ error = Str(ApiKeyMsg)
              /\ analysisResult = Null
              /\ ~isLoading
              /\ imageFile = event.file

\* C7 witness: a scan without a credential has completed
C7_Witness == /\ ~apiKey
              /\ event.op = "complete"
              /\ event.wasLoading
              /\ invocations >= 1

\* C8: analyzeCarImage has been invoked exactly as often as handleScan has
\* run with an image held; a failure invokes nothing.
C8_OncePerScan == invocations = scans

\* C8 witness: a second scan has failed
C8_Witness == /\ scans >= 2
              /\ event.op = "complete"
              /\ event.outcome.kind = "throw"

\* C9: if every call settles, a scan that is loading stops loading.
C9_LoadingEnds == isLoading ~> ~isLoading

\* C9 witness: a failed call has taken the controller out of loading
C9_Witness == /\ event.op = "complete"
              /\ event.outcome.kind = "throw"
              /\ event.wasLoading
              /\ ~isLoading

\* C10: when the call of the held image returns a record with the four
\* fields, that record is the result, unmodified, and no error is held.
C10_WellFormedSucceeds ==
    (/\ event.op = "complete"
     /\ event.outcome.kind = "return"
     /\ IsCarAnalysis(event.outcome.value)
     /\ event.file = imageFile)
        => /\ analysisResult = event.outcome.value
           /\ ~Truthy(error)
           /\ ~isLoading

\* a completion of the scan of the image that is still held
CurrentCompletion == /\ event.op = "complete"
                     /\ event.file = imageFile

Success == /\ Truthy(imageFile)
           /\ ~isLoading
           /\ Truthy(analysisResult)
           /\ ~Truthy(error)

Failed == /\ Truthy(imageFile)
          /\ ~isLoading
          /\ Truthy(error)
          /\ ~Truthy(analysisResult)

\* C11: when the call of the held image completes, the controller is in
\* Success (a result, no error) or in Failed (an error, no result), never
\* back in Ready with neither.
C11_SuccessOrFailed == CurrentCompletion => (Success \/ Failed)

\* C12: a result and an error are never held together, and while isLoading
\* is true neither is held.
C12_OneVariant ==
    /\ ~(Truthy(analysisResult) /\ Truthy(error))
    /\ isLoading => (~Truthy(analysisResult) /\ ~Truthy(error))

\* C14: a call of the held image that reached the service and did not get
\* a record with the four fields (transport failure, unparseable body,
\* body that violates the schema) ends in Failed with the one message of
\* analyzeCarImage's catch block.
C14_OneOpaqueFailure ==
    (/\ CurrentCompletion
     /\ \/ event.outcome = Throw(ErrorObj(AnalyzeFailMsg))
        \/ /\ event.outcome.kind = "return"
           /\ ~IsCarAnalysis(event.outcome.value))
        => /\ Failed
           /\ error = Str(AnalyzeFailMsg)

\* C13: the object URLs created and not revoked are exactly the preview
\* URL of the held image: at most one exists, and none without an image.
C13_PreviewReleased ==
    /\ Cardinality(urls) <= 1
    /\ Truthy(imageFile) => (previewUrl = UrlObj(imageFile.id) /\ urls = {previewUrl})
    /\ ~Truthy(imageFile) => (previewUrl = Null /\ urls = {})

\* C13 witness: a second image is held after the first one was reset away
C13_Witness == /\ imageFile = FileObj(2)
               /\ urls = {UrlObj(2)}

\* C15 as claimed: a scan is triggered only from Ready, that is with an
\* image, not loading, and with neither a result nor an error held.
C15_ScanOnlyFromReady ==
    event.op = "scan" => (~event.wasLoading /\ ~event.pre)

\* C15 as amended: a scan is triggered only with an image held, not
\* loading and no result held (Ready or Failed; an error may be held).
C15_ScanOnlyWithoutResult ==
    [][scans' # scans =>
         /\ Truthy(imageFile)
         /\ ~isLoading
         /\ ~Truthy(analysisResult)]_vars

\* C15 witness: a scan triggered while an error was held
C15_Witness == /\ event.op = "scan"
               /\ event.pre
               /\ ~event.wasLoading

\* C16: a scan triggered while an error is held clears the error and
\* enters loading, with the image, its preview URL and the live object
\* URLs unchanged.
C16_RetryFromFailed ==
    [][(scans' # scans /\ Truthy(error)) =>
         /\ error' = Null
         /\ isLoading'
         /\ Truthy(imageFile)
         /\ imageFile' = imageFile
         /\ previewUrl' = previewUrl
         /\ urls' = urls]_vars

\* C16 witness: the retry of a failed scan of the same image is loading
C16_Witness == /\ event.op = "scan"
               /\ event.pre
               /\ isLoading
               /\ error = Null
               /\ imageFile = event.file
               /\ scans >= 2

====
